---- MODULE Spec2Model ----
(***************************************************************************)
(* The tRPC routers of easy-panel over their relational store:             *)
(*   src/src/server/api/routers/serviceInstance.ts  (registry and ledger)  *)
(*   src/src/server/api/routers/user.ts             (credentials, session) *)
(* Every handler is an async function: between two awaits other requests   *)
(* run.  A handler made of one statement is one action; the two handlers   *)
(* that open a store transaction are one action per awaited statement.     *)
(* Timestamps (createdAt, updatedAt) and display fields are left out: no   *)
(* handler reads them.                                                     *)
(***************************************************************************)
EXTENDS Integers, Sequences, FiniteSets, TLC

\* Bounds of the model.
MaxUsers == 3
MaxCuid == 5
MaxSessions == 2

\* The requests of a run that open a transaction, one per caller.
Requests == {"r1", "r2"}
Passwords == {"pw1", "pw2"}
Roles == {"ADMIN", "USER"}

UserIds == 1..MaxUsers
Cuids == 1..MaxCuid

\* instanceId inputs (z.string(), any string): the seeded instance, and the
\* first id createCUID hands out, which is an instance's id, a token, or
\* nothing yet.
InstanceIdInputs == {1, 3}

VARIABLES
  users,                  \* table user: id -> row
  sessions,               \* lucia's session store: set of [id, userId]
  sessionSeq,             \* session ids issued so far
  cookie,                 \* the caller's session cookie (0: none)
  lastLogin,              \* what the last login did, as the caller can observe
  lastChange,             \* outcome of the last changePassword
  serviceInstances,       \* table serviceInstances: the ids of its rows
  userInstanceAbilities,  \* table userInstanceAbilities (the grant ledger)
  resourceUsageLogs,      \* table resourceUsageLogs
  cuid,                   \* ids createCUID has issued so far
  req,                    \* the requests in flight
  tx,                     \* the store's open write transaction
  lastVerify              \* the last verifyUserAbility call and its answer

authVars == <<sessions, sessionSeq, cookie, lastLogin, lastChange>>
storeVars == <<serviceInstances, userInstanceAbilities, resourceUsageLogs>>
vars == <<users, sessions, sessionSeq, cookie, lastLogin, lastChange,
          serviceInstances, userInstanceAbilities, resourceUsageLogs,
          cuid, req, tx, lastVerify>>

(***************************************************************************)
(* @/lib/password: a salted one-way hash and its verification.             *)
(***************************************************************************)
hashPassword(password) == <<"hash", password>>

verifyPassword(password, hashed) == hashed = hashPassword(password)

(***************************************************************************)
(* Rows and queries.                                                       *)
(***************************************************************************)
\* The select without its where clause.
AllUsers(us) == DOMAIN us

ActiveUsers(us) == {u \in DOMAIN us : us[u].isActive}

RowsOf(rows, I) == {a \in rows : a.instanceId = I}

HasRow(rows, u, I) == \E a \in rows : a.userId = u /\ a.instanceId = I

\* An upsert whose set clause takes the new token too.
UpsertRotating(rows, u, I, token) ==
  {a \in rows : ~(a.userId = u /\ a.instanceId = I)}
    \cup {[userId |-> u, instanceId |-> I, token |-> token, canUse |-> TRUE]}

\* An insert with no conflict clause on a table with no key on the pair.
UpsertAlwaysInserts(rows, u, I, token) ==
  rows \cup {[userId |-> u, instanceId |-> I, token |-> token, canUse |-> TRUE]}

\* insert ... values {userId, instanceId, token, canUse: true}
\*   onConflictDoUpdate target (userId, instanceId) set {canUse: true}
Upsert(rows, u, I, token) ==
  IF HasRow(rows, u, I)
  THEN {IF a.userId = u /\ a.instanceId = I THEN [a EXCEPT !.canUse = TRUE] ELSE a
          : a \in rows}
  ELSE rows \cup {[userId |-> u, instanceId |-> I, token |-> token, canUse |-> TRUE]}

\* The guards without the one on canUse.
VerifyCheckNoCanUse(a, I) ==
  IF a.instanceId # I
  THEN [code |-> "UNAUTHORIZED", message |-> "Invalid instanceId", userId |-> 0]
  ELSE [code |-> "OK", message |-> "", userId |-> a.userId]

\* findFirst({where: and(eq(instanceId, I), eq(token, t))}) and the three guards
\* that follow it: the answer for the row findFirst returned.
VerifyCheck(a, I) ==
  IF a.instanceId # I
  THEN [code |-> "UNAUTHORIZED", message |-> "Invalid instanceId", userId |-> 0]
  ELSE IF a.canUse = FALSE
  THEN [code |-> "FORBIDDEN", message |-> "You are not permitted to use this instance",
        userId |-> 0]
  ELSE [code |-> "OK", message |-> "", userId |-> a.userId]

\* Every answer verifyUserAbility can give on the ledger `rows`: findFirst
\* returns any one of the matching rows, or nothing.
verifyUserAbility(rows, I, t) ==
  LET matching == {a \in rows : a.instanceId = I /\ a.token = t}
  IN  IF matching = {}
      THEN {[code |-> "UNAUTHORIZED", message |-> "Invalid token", userId |-> 0]}
      ELSE {VerifyCheck(a, I) : a \in matching}

NoTx == [owner |-> "none", abilities |-> {}, delInstances |-> {}, delLogs |-> {}]

Idle == [pc |-> "idle", op |-> "none", instanceId |-> 0, userIds |-> {},
         todo |-> {}, deleteLogs |-> FALSE, res |-> "none"]

NoLogin == [username |-> 0, steps |-> <<>>, code |-> "none", message |-> "",
            session |-> 0, cookieSet |-> FALSE]

NoChange == [caller |-> 0, id |-> 0, password |-> "", code |-> "none"]

NoVerify == [instanceId |-> 0, userToken |-> 0, code |-> "none", userId |-> 0]

(***************************************************************************)
(* The store as deployed: the seeded administrator, one service instance   *)
(* (id 1), a grant of it to the administrator (token 2) that was revoked,  *)
(* and two usage logs the instance wrote.                                  *)
(***************************************************************************)
Init ==
  /\ users = (1 :> [username |-> 1, hashedPassword |-> hashPassword("pw1"),
                    role |-> "ADMIN", isActive |-> TRUE])
  /\ sessions = {}
  /\ sessionSeq = 0
  /\ cookie = 0
  /\ lastLogin = NoLogin
  /\ lastChange = NoChange
  /\ serviceInstances = {1}
  /\ userInstanceAbilities =
       {[userId |-> 1, instanceId |-> 1, token |-> 2, canUse |-> FALSE]}
  /\ resourceUsageLogs = {[id |-> i, instanceId |-> 1] : i \in {1, 2}}
  /\ cuid = 2
  /\ req = [r \in Requests |-> Idle]
  /\ tx = NoTx
  /\ lastVerify = NoVerify

(***************************************************************************)
(* serviceInstance.ts                                                      *)
(***************************************************************************)
\* create: insert a row whose id is createCUID().
InstanceCreate ==
  /\ cuid < MaxCuid
  /\ cuid' = cuid + 1
  /\ serviceInstances' = serviceInstances \cup {cuid + 1}
  /\ UNCHANGED <<users, authVars, userInstanceAbilities, resourceUsageLogs,
                 req, tx, lastVerify>>

\* grantToAllActiveUsers, line 35: the select of the active users, on ctx.db,
\* before the transaction is opened.
GrantRead(r, I) ==
  /\ req[r].pc = "idle"
  /\ req' = [req EXCEPT ![r] = [Idle EXCEPT !.pc = "grant_begin", !.op = "grant",
                                            !.instanceId = I,
                                            !.userIds = ActiveUsers(users)]]
  /\ UNCHANGED <<users, authVars, storeVars, cuid, tx, lastVerify>>

\* line 36: ctx.db.transaction opens; the store runs one write transaction at
\* a time.
GrantBegin(r) ==
  /\ req[r].pc = "grant_begin"
  /\ tx.owner = "none"
  /\ tx' = [NoTx EXCEPT !.owner = r, !.abilities = userInstanceAbilities]
  /\ req' = [req EXCEPT ![r].pc = "grant_loop", ![r].todo = req[r].userIds]
  /\ UNCHANGED <<users, authVars, storeVars, cuid, lastVerify>>

\* lines 37-54: one turn of the loop (the rows in the order of their ids), the
\* upsert of user u inside the transaction; createCUID() is evaluated whether
\* or not the row exists.
GrantUpsert(r, u) ==
  /\ req[r].pc = "grant_loop"
  /\ tx.owner = r
  /\ u \in req[r].todo
  /\ \A v \in req[r].todo : u <= v
  /\ cuid < MaxCuid
  /\ cuid' = cuid + 1
  /\ tx' = [tx EXCEPT !.abilities = Upsert(tx.abilities, u, req[r].instanceId, cuid + 1)]
  /\ req' = [req EXCEPT ![r].todo = req[r].todo \ {u}]
  /\ UNCHANGED <<users, authVars, storeVars, lastVerify>>

\* line 55: the callback returns and the transaction commits.
GrantCommit(r) ==
  /\ req[r].pc = "grant_loop"
  /\ tx.owner = r
  /\ req[r].todo = {}
  /\ userInstanceAbilities' = tx.abilities
  /\ tx' = NoTx
  /\ req' = [req EXCEPT ![r].pc = "done", ![r].res = "ok"]
  /\ UNCHANGED <<users, authVars, serviceInstances, resourceUsageLogs, cuid, lastVerify>>

\* A failure after which the statements already run stay in the ledger.
TxFailKeepsWrites(r) ==
  /\ tx.owner = r
  /\ tx' = NoTx
  /\ userInstanceAbilities' = tx.abilities
  /\ req' = [req EXCEPT ![r].pc = "done", ![r].res = "error"]
  /\ UNCHANGED <<users, authVars, serviceInstances, resourceUsageLogs, cuid, lastVerify>>

\* A statement of the open transaction (or its commit) throws: the
\* transaction is rolled back and the error goes to the caller.
TxFail(r) ==
  /\ tx.owner = r
  /\ tx' = NoTx
  /\ req' = [req EXCEPT ![r].pc = "done", ![r].res = "error"]
  /\ UNCHANGED <<users, authVars, storeVars, cuid, lastVerify>>

\* delete, line 131: the transaction opens.
DeleteBegin(r, I, deleteLogs) ==
  /\ req[r].pc = "idle"
  /\ tx.owner = "none"
  /\ tx' = [NoTx EXCEPT !.owner = r, !.abilities = userInstanceAbilities]
  /\ req' = [req EXCEPT ![r] = [Idle EXCEPT !.pc = "del_abilities", !.op = "delete",
                                            !.instanceId = I,
                                            !.deleteLogs = deleteLogs]]
  /\ UNCHANGED <<users, authVars, storeVars, cuid, lastVerify>>

\* line 132
DeleteAbilities(r) ==
  /\ req[r].pc = "del_abilities"
  /\ tx.owner = r
  /\ tx' = [tx EXCEPT !.abilities = tx.abilities \ RowsOf(tx.abilities, req[r].instanceId)]
  /\ req' = [req EXCEPT ![r].pc = "del_instance"]
  /\ UNCHANGED <<users, authVars, storeVars, cuid, lastVerify>>

\* The delete of the instance row issued on ctx.db, outside the transaction.
DeleteInstanceOutsideTx(r) ==
  /\ req[r].pc = "del_instance"
  /\ tx.owner = r
  /\ serviceInstances' = serviceInstances \ {req[r].instanceId}
  /\ req' = [req EXCEPT ![r].pc = "del_logs"]
  /\ UNCHANGED <<users, authVars, userInstanceAbilities, resourceUsageLogs, cuid, tx,
                 lastVerify>>

\* line 133
DeleteInstance(r) ==
  /\ req[r].pc = "del_instance"
  /\ tx.owner = r
  /\ tx' = [tx EXCEPT !.delInstances = {req[r].instanceId}]
  /\ req' = [req EXCEPT ![r].pc = "del_logs"]
  /\ UNCHANGED <<users, authVars, storeVars, cuid, lastVerify>>

\* lines 134-136
DeleteLogs(r) ==
  /\ req[r].pc = "del_logs"
  /\ tx.owner = r
  /\ tx' = [tx EXCEPT !.delLogs = IF req[r].deleteLogs THEN {req[r].instanceId} ELSE {}]
  /\ req' = [req EXCEPT ![r].pc = "del_commit"]
  /\ UNCHANGED <<users, authVars, storeVars, cuid, lastVerify>>

\* line 137: the callback returns and the transaction commits.
DeleteCommit(r) ==
  /\ req[r].pc = "del_commit"
  /\ tx.owner = r
  /\ userInstanceAbilities' = tx.abilities
  /\ serviceInstances' = serviceInstances \ tx.delInstances
  /\ resourceUsageLogs' = {l \in resourceUsageLogs : l.instanceId \notin tx.delLogs}
  /\ tx' = NoTx
  /\ req' = [req EXCEPT ![r].pc = "done", ![r].res = "ok"]
  /\ UNCHANGED <<users, authVars, cuid, lastVerify>>

\* verifyUserAbility, lines 149-166: a query on ctx.db, outside any
\* transaction.
VerifyUserAbility(I, t) ==
  /\ \E out \in verifyUserAbility(userInstanceAbilities, I, t) :
       lastVerify' = [instanceId |-> I, userToken |-> t, code |-> out.code,
                      userId |-> out.userId]
  /\ UNCHANGED <<users, authVars, storeVars, cuid, req, tx>>

(***************************************************************************)
(* user.ts                                                                 *)
(***************************************************************************)
\* create: the row is stored with hashPassword(input.password); the id is
\* generated by the store, the username is unique.
UserCreate(role, password, isActive) ==
  LET id == Cardinality(DOMAIN users) + 1
  IN  /\ id <= MaxUsers
      /\ users' = users @@ (id :> [username |-> id,
                                   hashedPassword |-> hashPassword(password),
                                   role |-> role, isActive |-> isActive])
      /\ UNCHANGED <<authVars, storeVars, cuid, req, tx, lastVerify>>

\* An administrator's edit of a user row (spec section 3: a user is mutated
\* by an admin in any field): the active flag is set.
AdminUpdateUser(u, isActive) ==
  /\ u \in DOMAIN users
  /\ users[u].isActive # isActive
  /\ users' = [users EXCEPT ![u].isActive = isActive]
  /\ UNCHANGED <<authVars, storeVars, cuid, req, tx, lastVerify>>

\* findUnique({where: {username}}): the row, or 0 for null.
FindByUsername(username) ==
  IF \E u \in DOMAIN users : users[u].username = username
  THEN CHOOSE u \in DOMAIN users : users[u].username = username
  ELSE 0

\* The session the caller's cookie names, as the procedure tiers of
\* @/server/trpc validate it before a handler runs.
ValidSessions == {s \in sessions : s.id = cookie}

\* login, lines 29-45.  steps lists what the handler did, in order.
Login(username, password) ==
  LET user == FindByUsername(username)
  IN  /\ IF user = 0
         THEN /\ lastLogin' = [username |-> username, steps |-> <<"findUnique">>,
                               code |-> "UNAUTHORIZED",
                               message |-> "Wrong username or password",
                               session |-> 0, cookieSet |-> FALSE]
              /\ UNCHANGED <<sessions, sessionSeq, cookie>>
         ELSE IF ~verifyPassword(password, users[user].hashedPassword)
         THEN /\ lastLogin' = [username |-> username,
                               steps |-> <<"findUnique", "verifyPassword">>,
                               code |-> "UNAUTHORIZED",
                               message |-> "Wrong username or password",
                               session |-> 0, cookieSet |-> FALSE]
              /\ UNCHANGED <<sessions, sessionSeq, cookie>>
         ELSE /\ sessionSeq < MaxSessions
              /\ sessionSeq' = sessionSeq + 1
              /\ sessions' = sessions \cup {[id |-> sessionSeq + 1, userId |-> user]}
              /\ cookie' = sessionSeq + 1
              /\ lastLogin' = [username |-> username,
                               steps |-> <<"findUnique", "verifyPassword",
                                           "createSession", "setCookie">>,
                               code |-> "OK", message |-> "",
                               session |-> sessionSeq + 1, cookieSet |-> TRUE]
      /\ UNCHANGED <<users, lastChange, storeVars, cuid, req, tx, lastVerify>>

\* logout, lines 47-51.
Logout ==
  /\ ValidSessions # {}
  /\ sessions' = sessions \ ValidSessions
  /\ cookie' = 0
  /\ UNCHANGED <<users, sessionSeq, lastLogin, lastChange, storeVars, cuid, req, tx,
                 lastVerify>>

\* changePassword without the check of the caller.
ChangePasswordUnchecked(s, id, password) ==
  /\ s \in ValidSessions
  /\ id \in DOMAIN users
  /\ lastChange' = [caller |-> s.userId, id |-> id, password |-> password, code |-> "OK"]
  /\ users' = [users EXCEPT ![id].hashedPassword = hashPassword(password)]
  /\ UNCHANGED <<sessions, sessionSeq, cookie, lastLogin, storeVars, cuid, req, tx,
                 lastVerify>>

\* changePassword, lines 100-115, called with the session s: the password is
\* hashed, the caller is checked, the row is updated (an update of a row that
\* does not exist throws and writes nothing).
ChangePassword(s, id, password) ==
  LET hashedPassword == hashPassword(password)
      caller == s.userId
  IN  /\ s \in ValidSessions
      /\ IF users[caller].role # "ADMIN" /\ id # caller
         THEN /\ lastChange' = [caller |-> caller, id |-> id, password |-> password,
                                code |-> "FORBIDDEN"]
              /\ UNCHANGED users
         ELSE IF id \notin DOMAIN users
         THEN /\ lastChange' = [caller |-> caller, id |-> id, password |-> password,
                                code |-> "NOT_FOUND"]
              /\ UNCHANGED users
         ELSE /\ lastChange' = [caller |-> caller, id |-> id, password |-> password,
                                code |-> "OK"]
              /\ users' = [users EXCEPT ![id].hashedPassword = hashedPassword]
      /\ UNCHANGED <<sessions, sessionSeq, cookie, lastLogin, storeVars, cuid, req, tx,
                     lastVerify>>

AuthNext ==
  \/ \E username \in UserIds, password \in Passwords : Login(username, password)
  \/ Logout
  \/ \E s \in sessions, id \in UserIds, password \in Passwords :
        ChangePassword(s, id, password)
  \/ \E role \in Roles : UserCreate(role, "pw1", TRUE)

SpecAuth == Init /\ [][AuthNext]_vars

\* The transactional handlers, run by the requests R, and the one-statement
\* handlers that run between their awaits.
LedgerStep(R) ==
  \/ InstanceCreate
  \/ \E r \in R, I \in InstanceIdInputs : GrantRead(r, I)
  \/ \E r \in R : GrantBegin(r)
  \/ \E r \in R, u \in UserIds : GrantUpsert(r, u)
  \/ \E r \in R : GrantCommit(r)
  \/ \E r \in R : TxFail(r)
  \/ \E r \in R, I \in InstanceIdInputs, deleteLogs \in BOOLEAN :
        DeleteBegin(r, I, deleteLogs)
  \/ \E r \in R : DeleteAbilities(r)
  \/ \E r \in R : DeleteInstance(r)
  \/ \E r \in R : DeleteLogs(r)
  \/ \E r \in R : DeleteCommit(r)
  \/ \E isActive \in BOOLEAN : UserCreate("USER", "pw1", isActive)
  \/ \E u \in UserIds : AdminUpdateUser(u, FALSE)

Next == LedgerStep(Requests)

Spec == Init /\ [][Next]_vars

\* The ledger under one transactional request at a time, and the instances'
\* queries of it.
VerifyNext ==
  \/ LedgerStep({"r1"})
  \/ \E I \in InstanceIdInputs, t \in Cuids : VerifyUserAbility(I, t)

SpecVerify == Init /\ [][VerifyNext]_vars

(***************************************************************************)
(* Steps of the transactional requests.                                    *)
(***************************************************************************)
\* Request r moves (every action changes the record of at most one request).
Moves(r, op) == req'[r] # req[r] /\ req'[r].op = op

GrantCommitStep(r) ==
  req[r].pc = "grant_loop" /\ req'[r].pc = "done" /\ req'[r].res = "ok"

GrantBeginStep(r) == req[r].pc = "grant_begin" /\ req'[r].pc = "grant_loop"

GrantReadStep(r) == req[r].pc = "idle" /\ req'[r].pc = "grant_begin"

DeleteCommitStep(r) ==
  req[r].pc = "del_commit" /\ req'[r].pc = "done" /\ req'[r].res = "ok"

Finished(r, op, res) == req[r].pc = "done" /\ req[r].op = op /\ req[r].res = res

SeedRow == [userId |-> 1, instanceId |-> 1, token |-> 2, canUse |-> FALSE]

(***************************************************************************)
(* The claims.                                                             *)
(***************************************************************************)

\* C1: on every ledger and for every (instanceId, userToken), verifyUserAbility
\* has one answer, decided by the ledger: UNAUTHORIZED exactly when no row has
\* that pair (a token under another instance included), FORBIDDEN when the
\* row of the pair has canUse false, and otherwise the userId of that row.
C1_VerifyDecidedByLedger ==
  \A I \in Cuids, t \in Cuids :
    LET out == verifyUserAbility(userInstanceAbilities, I, t)
        matching == {a \in userInstanceAbilities : a.instanceId = I /\ a.token = t}
    IN  /\ Cardinality(out) = 1
        /\ Cardinality(matching) <= 1
        /\ \A o \in out :
             /\ o.code \in {"OK", "UNAUTHORIZED", "FORBIDDEN"}
             /\ (o.code = "UNAUTHORIZED") <=> (matching = {})
             /\ \A a \in matching :
                  IF a.canUse
                  THEN o.code = "OK" /\ o.userId = a.userId
                  ELSE o.code = "FORBIDDEN"

\* A query answered with the user of a usable grant while a revoked grant is
\* in the ledger too.
C1_Witness ==
  /\ lastVerify.code = "OK"
  /\ \E a \in userInstanceAbilities :
       /\ a.instanceId = lastVerify.instanceId
       /\ a.token = lastVerify.userToken
       /\ a.userId = lastVerify.userId
       /\ a.canUse
  /\ \E b \in userInstanceAbilities : ~b.canUse

\* C2: a grant that commits keeps the token of every row the instance already
\* had, and leaves a canUse = true row for every user it read as active,
\* rows that were revoked before it included.
C2_TokensStable ==
  [][\A r \in Requests :
       GrantCommitStep(r) =>
         LET I == req[r].instanceId
         IN  /\ \A a \in RowsOf(userInstanceAbilities, I) :
                  \E b \in RowsOf(userInstanceAbilities', I) :
                    b.userId = a.userId /\ b.token = a.token
             /\ \A u \in req[r].userIds :
                  \E b \in RowsOf(userInstanceAbilities', I) :
                    b.userId = u /\ b.canUse]_vars

\* Two grants of instance 1 have committed, both for user 1, whose seeded row
\* was revoked: the row is usable again under the token it always had.
C2_Witness ==
  /\ \A r \in Requests :
       Finished(r, "grant", "ok") /\ req[r].instanceId = 1 /\ 1 \in req[r].userIds
  /\ [SeedRow EXCEPT !.canUse = TRUE] \in userInstanceAbilities

\* C3: the call reads exactly the users with isActive = true; when it commits
\* on an instance X that had no row, X has exactly one row per user read, each
\* with canUse = true, their tokens pairwise distinct, and the rows of the
\* other instances are as they were.
C3_FreshGrant ==
  [][\A r \in Requests :
       /\ GrantReadStep(r) =>
            req'[r].userIds = {u \in DOMAIN users : users[u].isActive}
       /\ (GrantCommitStep(r) /\ RowsOf(userInstanceAbilities, req[r].instanceId) = {}) =>
            LET X == req[r].instanceId
                new == RowsOf(userInstanceAbilities', X)
            IN  /\ {a.userId : a \in new} = req[r].userIds
                /\ Cardinality(new) = Cardinality(req[r].userIds)
                /\ \A a \in new : a.canUse
                /\ \A a \in new, b \in new : a.token = b.token => a = b
                /\ userInstanceAbilities' \ new = userInstanceAbilities]_vars

\* A grant of the new instance 3 has committed for two active users while a
\* third user is inactive and has no row.
C3_Witness ==
  \E r \in Requests :
    /\ Finished(r, "grant", "ok") /\ req[r].instanceId = 3
    /\ 3 \in serviceInstances
    /\ Cardinality(req[r].userIds) = 2
    /\ Cardinality(RowsOf(userInstanceAbilities, 3)) = 2
    /\ \E u \in DOMAIN users :
         ~users[u].isActive /\ u \notin req[r].userIds
         /\ ~HasRow(userInstanceAbilities, u, 3)
    /\ SeedRow \in userInstanceAbilities

\* C4: a step of a delete request either leaves the three tables as they are
\* or is its commit, after which the instance row is gone, no grant row
\* references the id, and the usage logs of the id are all gone (deleteLogs)
\* or all kept (not deleteLogs).
C4_DeleteAllOrNothing ==
  [][\A r \in Requests :
       Moves(r, "delete") =>
         IF DeleteCommitStep(r)
         THEN LET I == req[r].instanceId
              IN  /\ I \notin serviceInstances'
                  /\ RowsOf(userInstanceAbilities', I) = {}
                  /\ IF req[r].deleteLogs
                     THEN RowsOf(resourceUsageLogs', I) = {}
                     ELSE resourceUsageLogs' = resourceUsageLogs
         ELSE UNCHANGED storeVars]_vars

\* One delete of instance 1 failed and was rolled back, the other committed
\* with deleteLogs: instance, grant rows and logs are gone.
C4_Witness ==
  /\ \E r \in Requests : Finished(r, "delete", "error") /\ req[r].instanceId = 1
  /\ \E r \in Requests :
       Finished(r, "delete", "ok") /\ req[r].instanceId = 1 /\ req[r].deleteLogs
  /\ 1 \notin serviceInstances
  /\ RowsOf(userInstanceAbilities, 1) = {}
  /\ RowsOf(resourceUsageLogs, 1) = {}

\* C5: no step of a grant request but its commit changes the ledger: the
\* upserts are not visible before the commit, and a failure leaves none.
C5_GrantAtomic ==
  [][\A r \in Requests :
       (Moves(r, "grant") /\ ~GrantCommitStep(r)) =>
         userInstanceAbilities' = userInstanceAbilities]_vars

\* A grant failed after the upsert of one of its two users: the ledger is the
\* seeded one.
C5_Witness ==
  \E r \in Requests :
    /\ Finished(r, "grant", "error")
    /\ Cardinality(req[r].userIds) = 2
    /\ Cardinality(req[r].todo) = 1
    /\ userInstanceAbilities = {SeedRow}

\* C6: a changePassword by a non-admin for another id answers FORBIDDEN and
\* writes nothing; by the user of the id or by an admin, for an existing
\* user, it succeeds, changes that user's hashedPassword alone, and stores
\* the hash of the password, not the password.
C6_ChangePassword ==
  [][lastChange' # lastChange =>
       LET c == lastChange'
           allowed == users[c.caller].role = "ADMIN" \/ c.id = c.caller
       IN  /\ ~allowed => (c.code = "FORBIDDEN" /\ users' = users)
           /\ (allowed /\ c.id \in DOMAIN users) =>
                /\ c.code = "OK"
                /\ users' = [users EXCEPT ![c.id].hashedPassword = hashPassword(c.password)]
                /\ users'[c.id].hashedPassword # c.password]_vars

\* A non-admin was refused the change of the administrator's password, which
\* the administrator had changed before.
C6_Witness ==
  /\ lastChange.code = "FORBIDDEN"
  /\ lastChange.id = 1
  /\ users[lastChange.caller].role = "USER"
  /\ users[1].hashedPassword = hashPassword("pw2")

\* C7: a login that fails has compared the supplied password with a hash,
\* whether or not the user exists, answers UNAUTHORIZED with the one
\* message, and creates no session and sets no cookie.
C7_LoginFailuresAlike ==
  lastLogin.code = "UNAUTHORIZED" =>
    /\ \E i \in DOMAIN lastLogin.steps : lastLogin.steps[i] = "verifyPassword"
    /\ lastLogin.message = "Wrong username or password"
    /\ lastLogin.session = 0
    /\ ~lastLogin.cookieSet

\* C8: the ledger has at most one row per (userId, instanceId) and no token
\* in two rows.
C8_LedgerKeys ==
  \A a \in userInstanceAbilities, b \in userInstanceAbilities :
    /\ (a.userId = b.userId /\ a.instanceId = b.instanceId) => a = b
    /\ a.token = b.token => a = b

\* A grant was repeated for the pair (user 1, instance 1), which had a row,
\* and other rows were created beside it.
C8_Witness ==
  /\ \E r \in Requests :
       Finished(r, "grant", "ok") /\ req[r].instanceId = 1 /\ 1 \in req[r].userIds
  /\ Cardinality({a \in userInstanceAbilities : a.userId = 1 /\ a.instanceId = 1}) = 1
  /\ Cardinality(userInstanceAbilities) >= 3

\* C9: the users a grant works on are the users active when its transaction
\* begins.
C9_ReadInsideTransaction ==
  [][\A r \in Requests :
       GrantBeginStep(r) => req[r].userIds = ActiveUsers(users)]_vars

\* C10: every grant row references an existing service instance.
C10_GrantsReferenceInstances ==
  \A a \in userInstanceAbilities : a.instanceId \in serviceInstances

====
